---- MODULE Spec2Model ----
(***************************************************************************)
(* Model of the multi-node hoster supervisor (src/index.js).               *)
(*                                                                         *)
(* The supervisor is one Node.js event loop: every callback (a child's     *)
(* data / exit event, a restart timer, the reconciliation interval, an     *)
(* input line) runs to completion, so each callback is one action.  The    *)
(* children are operating-system processes that live and die on their own; *)
(* the directories, the other numeric names under the root, the            *)
(* readability of the root, the writability of each log file, the presence *)
(* of the program node and the descriptors left for a spawn belong to the  *)
(* environment.                                                            *)
(*                                                                         *)
(* A workload id is a string of decimal digits, modelled as a sequence of  *)
(* digit characters; an input line is a sequence of characters.            *)
(* Timestamps inside log lines and console.log notices are not modelled:   *)
(* no callback reads them.                                                 *)
(***************************************************************************)
EXTENDS Naturals, Sequences, FiniteSets, TLC

VARIABLES
    processes,   \* let processes = {}   : id -> child handle
    startTimes,  \* let startTimes = {}  : id -> Date.now() at spawn
    logStream,   \* let logStream = null : the selected id, or NoId
    timers,      \* pending setTimeout(() => startBot(id), 5000) callbacks
    errq,        \* handles whose 'error' event is queued by process.nextTick
    sup,         \* "boot" (module body running), "running", "crashed"
    procs,       \* every child ever returned by spawn, indexed by handle
    logFile,     \* logs/<id>.txt : the sequence of appended messages
    console,     \* chunks written by process.stdout.write / process.stderr.write
    dirs,        \* the numeric directories present under ./
    files,       \* the numeric names under ./ that are not directories
    now,         \* Date.now()
    chunks,      \* number of data events delivered so far
    removed,     \* history: ids stopped by reconciliation whose directory is still absent
    zeroLine,    \* history: the last digit-only input line was "0"
    zeroEcho,    \* history: a chunk was echoed while zeroLine held
    ms,          \* the argument of formatDuration: a duration in milliseconds
    uptime,      \* the text formatDuration returned for ms, or NoText
    reading      \* a chunk of stdin is being read and its lines have queued 'error' events

vars == <<processes, startTimes, logStream, timers, errq, sup, procs, logFile,
          console, dirs, files, now, chunks, removed, zeroLine, zeroEcho, ms, uptime,
          reading>>

----------------------------------------------------------------------------
(* Bounds of the model *)

\* The children spawned, and the periods of 5 s that pass, in a behaviour.
MaxSpawns == 3

MaxChunks == 1

MaxAdvance == 2

\* The same two bounds for the specifications that take the operator's input
\* or the faults of the system into account.
FewSpawns == 2

FewAdvance == 1

MaxSeconds == 7325

(* Program constants *)

RestartDelay == 5000

----------------------------------------------------------------------------
(* Values *)

Digits == {"0", "1"}

DigitChars == <<"0", "1", "2", "3", "4", "5", "6", "7", "8", "9">>

DigitVal(c) == CHOOSE i \in 0..9 : DigitChars[i + 1] = c

Ids == {<<d>> : d \in Digits}

NoId == <<>>

\* No text: formatDuration has not been called.
NoText == ""

Streams == {"out", "err"}

Data == {"A"}

ExitCodes == {"0", "1", "null"}

Lines == Ids
         \cup {<<"r">> \o i : i \in Ids}
         \cup {<<"s">> \o i : i \in Ids}
         \cup {<<"r", "a">>, <<"s", "a">>, <<"l", "s">>, <<"x">>}

----------------------------------------------------------------------------
(* Helpers *)

\* /^\d+$/.test(line)
IsDigits(line) == Len(line) > 0 /\ \A i \in 1..Len(line) : line[i] \in Digits

\* /^r\d+$/.test(line), /^s\d+$/.test(line)
IsCmd(c, line) == Len(line) > 1 /\ line[1] = c /\ IsDigits(Tail(line))

\* delete obj[id]
Delete(obj, id) == [k \in DOMAIN obj \ {id} |-> obj[k]]

\* obj[id] = v
Put(obj, id, v) == [k \in DOMAIN obj \cup {id} |-> IF k = id THEN v ELSE obj[k]]

\* The enumerations of a finite set, in every order.
Orders(S) == {q \in [1..Cardinality(S) -> S] : \A i, j \in 1..Cardinality(S) : q[i] = q[j] => i = j}

\* Object.keys(obj): integer-like keys come out in ascending numeric order.
Keys(obj) ==
    CHOOSE q \in Orders(DOMAIN obj) :
        \A i, j \in 1..Len(q) : i < j => DigitVal(q[i][1]) < DigitVal(q[j][1])

\* listProjects(): the digit-only names under ./, directories or not (line 15
\* tests the name only), in the order readdirSync yields them, which the file
\* system decides.
listProjects == Orders(dirs \cup files)

Alive(h) == h \in 1..Len(procs) /\ procs[h].status = "alive"

AliveOf(id) == {h \in 1..Len(procs) : procs[h].id = id /\ procs[h].status = "alive"}

----------------------------------------------------------------------------
(* The state a callback works on.  thrown: an exception is propagating or   *)
(* the process was killed; the rest of the callback is skipped and the       *)
(* process dies.  fs: what the operating system answers during this          *)
(* callback, call by call: fs.root, fs.readdirSync("./") succeeds;           *)
(* fs.logs[id], fs.appendFileSync on logs/<id>.txt succeeds (it fails when   *)
(* ./logs is missing, and for a single file when logs/<id>.txt is a          *)
(* directory or read-only); fs.spawn[id], what spawn meets when it starts    *)
(* id: "ok", the program node is found; "ENOENT", node is not in the PATH of *)
(* process.env; "EMFILE", no file descriptor is left for the pipes.  A       *)
(* fs.kill[id], what kill() does on the child of a failed spawn of id, which *)
(* has no pid: "returns", it returns false and nothing is signalled;         *)
(* "group", the signal goes to process group 0, which holds the supervisor   *)
(* and every child it started.  Both are seen in runs of the program.  A     *)
(* callback appends to one log file at most once, and spawns or kills one id *)
(* at most once, so an answer per id is an answer per call.                  *)

SpawnAnswers == {"ok", "ENOENT", "EMFILE"}

KillAnswers == {"returns", "group"}

Healthy == [root |-> TRUE, logs |-> [id \in Ids |-> TRUE],
            spawn |-> [id \in Ids |-> "ok"], kill |-> [id \in Ids |-> "returns"]]

FsStates == [root : BOOLEAN, logs : [Ids -> BOOLEAN], spawn : [Ids -> SpawnAnswers],
             kill : [Ids -> KillAnswers]]

\* No call fails; what kill() does on a child without pid is left open.
HealthyStates == {[Healthy EXCEPT !.kill = k] : k \in [Ids -> KillAnswers]}

Cur(fs) == [processes |-> processes, startTimes |-> startTimes, timers |-> timers,
            errq |-> errq, procs |-> procs, logFile |-> logFile, thrown |-> FALSE,
            fs |-> fs]

Commit(s) ==
    /\ Len(s.procs) <= MaxSpawns
    /\ processes' = s.processes
    /\ startTimes' = s.startTimes
    /\ timers' = s.timers
    /\ errq' = s.errq
    /\ procs' = s.procs
    /\ logFile' = s.logFile
    /\ sup' = IF s.thrown THEN "crashed" ELSE "running"

Throw(s) == [s EXCEPT !.thrown = TRUE]

\* A log message: its kind ("Started", "Stopped", "Exited", "out", "err"), the
\* pid of a start notice (0: undefined) and the exit code or chunk text.
Msg(kind, pid, text) == [kind |-> kind, pid |-> pid, text |-> text]

\* fs.appendFileSync(logFile, message): appends, or throws.
logToFile(s, id, message) ==
    IF s.fs.logs[id] THEN [s EXCEPT !.logFile[id] = Append(@, message)] ELSE Throw(s)

\* spawn("node", ["index.js"], {cwd: `./${id}`, env: process.env}).  When
\* ./<id> exists and is not a directory, spawn throws ENOTDIR at once
\* ("throws": no child is returned).  When ./<id> is missing, or the program
\* node is not found, spawn returns a child that never runs and has no pid,
\* and whose 'error' event (ENOENT) is queued for the next tick ("failed").
\* When the pipes cannot be created (EMFILE), which is met before the
\* directory is looked at, the child returned has no pid and no stdout or
\* stderr either, and its 'error' event is queued as well ("nostdio").
Spawned(id, fs) ==
    [id |-> id,
     status |-> IF fs.spawn[id] = "EMFILE" THEN "nostdio"
                ELSE IF id \in files THEN "throws"
                ELSE IF id \in dirs /\ fs.spawn[id] = "ok" THEN "alive"
                ELSE "failed",
     sig |-> "none"]

\* The child as the registry holds it: one without stdio never ran either.
Child(bot) == IF bot.status = "nostdio" THEN [bot EXCEPT !.status = "failed"] ELSE bot

\* Mutant of startBot: without the guard on the registry.
startBotNoGuard(s, id) ==
    IF s.thrown THEN s
    ELSE LET h == Len(s.procs) + 1
             bot == Spawned(id, s.fs)
             s1 == [s EXCEPT !.procs = Append(@, Child(bot)),
                             !.processes = Put(@, id, h),
                             !.startTimes = Put(@, id, now),
                             !.errq = IF bot.status = "alive" THEN @ ELSE @ \cup {h}]
         IN IF bot.status = "throws" THEN Throw(s)
            ELSE IF bot.status = "nostdio" THEN Throw(s1)
            ELSE logToFile(s1, id, Msg("Started", IF bot.status = "failed" THEN 0 ELSE h, ""))

startBot(s, id) ==
    IF s.thrown \/ id \in DOMAIN s.processes THEN s
    ELSE LET h == Len(s.procs) + 1
             bot == Spawned(id, s.fs)
             s1 == [s EXCEPT !.procs = Append(@, Child(bot)),
                             !.processes = Put(@, id, h),
                             !.startTimes = Put(@, id, now),
                             !.errq = IF bot.status = "alive" THEN @ ELSE @ \cup {h}]
         IN IF bot.status = "throws" THEN Throw(s)
            ELSE IF bot.status = "nostdio" THEN Throw(s1)
            ELSE logToFile(s1, id, Msg("Started", IF bot.status = "failed" THEN 0 ELSE h, ""))

\* processes[id].kill(): the signal is sent; the child exits later, on its own.
\* sig records which caller asked for it.  The child of a failed spawn has no
\* pid: kill() either returns false, and the caller goes on, or the signal
\* goes to process group 0; the supervisor then dies of it inside kill(),
\* nothing after the call runs, and every running child is signalled.
Kill(s, id, sig) ==
    LET h == s.processes[id]
    IN IF s.procs[h].status = "failed" /\ s.fs.kill[id] = "group"
       THEN Throw([s EXCEPT !.procs = [k \in DOMAIN s.procs |->
                     IF k = h THEN [s.procs[k] EXCEPT !.sig = sig]
                     ELSE IF s.procs[k].status = "alive" /\ s.procs[k].sig = "none"
                     THEN [s.procs[k] EXCEPT !.sig = "group"]
                     ELSE s.procs[k]]])
       ELSE [s EXCEPT !.procs[h].sig = sig]

\* Mutant of stopBot: the start time of the stopped id is kept.
stopBotKeepsStartTime(s, id, sig) ==
    IF s.thrown \/ id \notin DOMAIN s.processes THEN s
    ELSE LET s1 == Kill(s, id, sig)
             s2 == [s1 EXCEPT !.processes = Delete(@, id)]
         IN IF s1.thrown THEN s1 ELSE logToFile(s2, id, Msg("Stopped", 0, ""))

\* Mutant of stopBot: Stop on an id that is not running cancels its pending
\* restart timers.
stopBotCancelsRestart(s, id, sig) ==
    IF s.thrown THEN s
    ELSE IF id \notin DOMAIN s.processes
    THEN [s EXCEPT !.timers = {t \in @ : t.id # id}]
    ELSE LET s1 == Kill(s, id, sig)
             s2 == [s1 EXCEPT !.processes = Delete(@, id), !.startTimes = Delete(@, id)]
         IN IF s1.thrown THEN s1 ELSE logToFile(s2, id, Msg("Stopped", 0, ""))

\* Mutant of stopBot: the "not running" notice goes to the log file too.
stopBotLogsNotRunning(s, id, sig) ==
    IF s.thrown THEN s
    ELSE IF id \notin DOMAIN s.processes THEN logToFile(s, id, Msg("Stopped", 0, ""))
    ELSE LET s1 == Kill(s, id, sig)
             s2 == [s1 EXCEPT !.processes = Delete(@, id), !.startTimes = Delete(@, id)]
         IN IF s1.thrown THEN s1 ELSE logToFile(s2, id, Msg("Stopped", 0, ""))

stopBot(s, id, sig) ==
    IF s.thrown \/ id \notin DOMAIN s.processes THEN s
    ELSE LET s1 == Kill(s, id, sig)
             s2 == [s1 EXCEPT !.processes = Delete(@, id), !.startTimes = Delete(@, id)]
         IN IF s1.thrown THEN s1 ELSE logToFile(s2, id, Msg("Stopped", 0, ""))

\* Mutant of restartBot: a running id is killed, unregistered and started
\* again within the same call.
restartBotRespawns(s, id) ==
    IF s.thrown THEN s
    ELSE IF id \in DOMAIN s.processes
    THEN LET s1 == Kill(s, id, "restart")
         IN IF s1.thrown THEN s1
            ELSE startBot([s1 EXCEPT !.processes = Delete(@, id),
                                     !.startTimes = Delete(@, id)], id)
    ELSE startBot(s, id)

\* restartBot(id): a registered id is signalled and nothing more; any other
\* id is started.
restartBot(s, id) ==
    IF s.thrown THEN s
    ELSE IF id \in DOMAIN s.processes THEN Kill(s, id, "restart")
    ELSE startBot(s, id)

RECURSIVE startAll(_, _)
startAll(s, ids) ==
    IF ids = <<>> THEN s ELSE startAll(startBot(s, Head(ids)), Tail(ids))

RECURSIVE stopAll(_, _, _)
stopAll(s, ids, sig) ==
    IF ids = <<>> THEN s ELSE stopAll(stopBot(s, Head(ids), sig), Tail(ids), sig)

RECURSIVE restartAll(_, _)
restartAll(s, ids) ==
    IF ids = <<>> THEN s ELSE restartAll(restartBot(s, Head(ids)), Tail(ids))

\* The ids of a list that are not in the desired set.
RECURSIVE Missing(_, _)
Missing(ids, current) ==
    IF ids = <<>> THEN <<>>
    ELSE (IF \E i \in 1..Len(current) : current[i] = Head(ids) THEN <<>> ELSE <<Head(ids)>>)
         \o Missing(Tail(ids), current)

----------------------------------------------------------------------------
(* Actions: one per callback of the event loop, and the environment.         *)

\* The event loop takes the next event: the module body is done, the process
\* lives, and the next-tick queue is empty.  The queue is drained when a
\* callback of the event loop returns, before the next one starts.
Ready == sup = "running" /\ errq = {}

\* The next line of the chunk of stdin at hand is taken: readline emits every
\* line of one chunk within the same callback of the event loop, so the
\* 'error' events queued by a line are still waiting when the next line runs.
NextLine == sup = "running" /\ (errq = {} \/ reading)

\* listProjects().forEach(startBot), at the end of the module body.
InitialStart(fs) ==
    /\ sup = "boot"
    /\ IF fs.root
       THEN \E current \in listProjects : Commit(startAll(Cur(fs), current))
       ELSE Commit(Throw(Cur(fs)))
    /\ UNCHANGED <<logStream, console, dirs, now, chunks, removed,
                   zeroLine, zeroEcho,
                   ms, uptime, files, reading>>

\* The queued 'error' event of a child that could not be spawned: startBot
\* installs no 'error' listener, so the emit throws and the process dies.
ErrorEvent(h) ==
    /\ sup = "running"
    /\ h \in errq
    /\ errq' = errq \ {h}
    /\ sup' = "crashed"
    /\ reading' = FALSE
    /\ UNCHANGED <<processes, startTimes, logStream, timers, procs, logFile, console,
                   dirs, now, chunks, removed, zeroLine, zeroEcho,
                   ms, uptime, files>>

\* Mutant of onData: echoes whenever some workload is selected.
onDataEchoAnySelected(h, stream, data, fs) ==
    LET id == procs[h].id
        echo == logStream # NoId
    IN /\ Ready
       /\ h \in 1..Len(procs)
       /\ procs[h].status # "failed"
       /\ chunks < MaxChunks
       /\ chunks' = chunks + 1
       /\ console' = IF echo THEN Append(console, [stream |-> stream, id |-> id, text |-> data])
                     ELSE console
       /\ zeroEcho' = (zeroEcho \/ (echo /\ zeroLine))
       /\ Commit(logToFile(Cur(fs), id, Msg(stream, 0, data)))
       /\ UNCHANGED <<logStream, dirs, now, removed, zeroLine,
                   ms, uptime, files, reading>>

\* bot.stdout.on("data") and bot.stderr.on("data"): echo if selected, then log.
\* The pipes outlive the child when a descendant of it holds them open, so a
\* chunk may arrive after the exit event; a child that never ran writes none.
onData(h, stream, data, fs) ==
    LET id == procs[h].id
        echo == logStream = id
    IN /\ Ready
       /\ h \in 1..Len(procs)
       /\ procs[h].status # "failed"
       /\ chunks < MaxChunks
       /\ chunks' = chunks + 1
       /\ console' = IF echo THEN Append(console, [stream |-> stream, id |-> id, text |-> data])
                     ELSE console
       /\ zeroEcho' = (zeroEcho \/ (echo /\ zeroLine))
       /\ Commit(logToFile(Cur(fs), id, Msg(stream, 0, data)))
       /\ UNCHANGED <<logStream, dirs, now, removed, zeroLine,
                   ms, uptime, files, reading>>

stdoutData(h, data, fs) == onData(h, "out", data, fs)

stderrData(h, data, fs) == onData(h, "err", data, fs)

\* Mutant of onExit: restarts only after a non-zero exit code.
onExitRestartOnFailure(s, h, code) ==
    LET id == procs[h].id
        s1 == logToFile(s, id, Msg("Exited", 0, code))
    IN IF s1.thrown THEN s1
       ELSE [s1 EXCEPT !.processes = Delete(@, id),
                       !.startTimes = Delete(@, id),
                       !.timers = IF code = "0" THEN @
                                  ELSE @ \cup {[id |-> id, from |-> h, due |-> now + RestartDelay]}]

\* bot.on("exit"): log, unregister the id, schedule startBot(id) in 5 s.
onExit(s, h, code) ==
    LET id == procs[h].id
        s1 == logToFile(s, id, Msg("Exited", 0, code))
    IN IF s1.thrown THEN s1
       ELSE [s1 EXCEPT !.processes = Delete(@, id),
                       !.startTimes = Delete(@, id),
                       !.timers = @ \cup {[id |-> id, from |-> h, due |-> now + RestartDelay]}]

\* Mutant of ExitEvent: the exit of the selected workload clears the selector.
ExitEventClearsSelector(h, code, fs) ==
    /\ Ready
    /\ Alive(h)
    /\ Commit(onExit([Cur(fs) EXCEPT !.procs[h].status = "exited"], h, code))
    /\ logStream' = IF logStream = procs[h].id THEN NoId ELSE logStream
    /\ UNCHANGED <<console, dirs, now, chunks, removed, zeroLine, zeroEcho,
                   ms, uptime, files, reading>>

ExitEvent(h, code, fs) ==
    /\ Ready
    /\ Alive(h)
    /\ Commit(onExit([Cur(fs) EXCEPT !.procs[h].status = "exited"], h, code))
    /\ UNCHANGED <<logStream, console, dirs, now, chunks, removed,
                   zeroLine, zeroEcho,
                   ms, uptime, files, reading>>

\* The callback of setTimeout(() => startBot(id), 5000).
TimerFire(t, fs) ==
    /\ Ready
    /\ t \in timers
    /\ now >= t.due
    /\ Commit(startBot([Cur(fs) EXCEPT !.timers = @ \ {t}], t.id))
    /\ UNCHANGED <<logStream, console, dirs, now, chunks, removed,
                   zeroLine, zeroEcho,
                   ms, uptime, files, reading>>

\* The setInterval callback: start the listed ids that are not registered,
\* then stop the registered ids that are not listed.
\* Mutant of Reconcile: only the removal half.
ReconcileStopOnly(s, current) ==
    stopAll(s, Missing(Keys(s.processes), current), "reconcile")

Reconcile(s, current) ==
    LET s1 == startAll(s, current)
    IN stopAll(s1, Missing(Keys(s1.processes), current), "reconcile")

ReconcileTick(fs) ==
    /\ Ready
    /\ IF fs.root
       THEN \E current \in listProjects :
              LET s == Reconcile(Cur(fs), current)
              IN /\ Commit(s)
                 /\ removed' = removed \cup (DOMAIN processes \ (DOMAIN s.processes \cup dirs))
       ELSE Commit(Throw(Cur(fs))) /\ removed' = removed
    /\ UNCHANGED <<logStream, console, dirs, now, chunks, zeroLine, zeroEcho,
                   ms, uptime, files, reading>>

\* showStatus(): reads the directory and prints; changes nothing.
showStatus(s) == IF s.fs.root THEN s ELSE Throw(s)

\* rl.on("line"): the first matching branch wins.
Line(input, fs) ==
    /\ NextLine
    /\ IF IsDigits(input)
       THEN logStream' = input /\ zeroLine' = (input = <<"0">>) /\ Commit(Cur(fs))
       ELSE IF input = <<"0">>
       THEN logStream' = NoId /\ zeroLine' = TRUE /\ Commit(Cur(fs))
       ELSE /\ UNCHANGED <<logStream, zeroLine>>
            /\ IF IsCmd("r", input) THEN Commit(restartBot(Cur(fs), Tail(input)))
               ELSE IF input = <<"r", "a">> THEN Commit(restartAll(Cur(fs), Keys(processes)))
               ELSE IF IsCmd("s", input) THEN Commit(stopBot(Cur(fs), Tail(input), "stop"))
               ELSE IF input = <<"s", "a">> THEN Commit(stopAll(Cur(fs), Keys(processes), "stop"))
               ELSE IF input = <<"l", "s">> THEN Commit(showStatus(Cur(fs)))
               ELSE Commit(Cur(fs))
    /\ reading' = (sup' = "running" /\ errq' # {})
    /\ UNCHANGED <<console, dirs, now, chunks, removed, zeroEcho,
                   ms, uptime, files>>

(* Environment *)

\* Wall-clock time passes.
Advance ==
    /\ sup # "crashed"
    /\ now < MaxAdvance * RestartDelay
    /\ now' = now + RestartDelay
    /\ UNCHANGED <<processes, startTimes, logStream, timers, errq, sup, procs, logFile,
                   console, dirs, chunks, removed, zeroLine, zeroEcho,
                   ms, uptime, files, reading>>

\* A numeric directory appears under ./
MkDir(id) ==
    /\ sup # "crashed"
    /\ id \notin dirs \cup files
    /\ dirs' = dirs \cup {id}
    /\ removed' = removed \ {id}
    /\ UNCHANGED <<processes, startTimes, logStream, timers, errq, sup, procs, logFile,
                   console, now, chunks, zeroLine, zeroEcho,
                   ms, uptime, files, reading>>

\* A numeric directory is deleted.
RmDir(id) ==
    /\ sup # "crashed"
    /\ id \in dirs
    /\ dirs' = dirs \ {id}
    /\ UNCHANGED <<processes, startTimes, logStream, timers, errq, sup, procs, logFile,
                   console, now, chunks, removed, zeroLine, zeroEcho,
                   ms, uptime, files, reading>>

\* A regular file with a numeric name appears under ./
MkFile(id) ==
    /\ sup # "crashed"
    /\ id \notin dirs \cup files
    /\ files' = files \cup {id}
    /\ UNCHANGED <<processes, startTimes, logStream, timers, errq, sup, procs, logFile,
                   console, dirs, now, chunks, removed, zeroLine, zeroEcho,
                   ms, uptime, reading>>

\* A regular file with a numeric name is deleted.
RmFile(id) ==
    /\ sup # "crashed"
    /\ id \in files
    /\ files' = files \ {id}
    /\ UNCHANGED <<processes, startTimes, logStream, timers, errq, sup, procs, logFile,
                   console, dirs, now, chunks, removed, zeroLine, zeroEcho,
                   ms, uptime, reading>>

----------------------------------------------------------------------------
(* Specifications *)

Init ==
    /\ processes = <<>>
    /\ startTimes = <<>>
    /\ logStream = NoId
    /\ timers = {}
    /\ errq = {}
    /\ sup = "boot"
    /\ procs = <<>>
    /\ logFile = [id \in Ids |-> <<>>]
    /\ console = <<>>
    /\ dirs \in SUBSET Ids
    /\ files = {}
    /\ now = 0
    /\ chunks = 0
    /\ removed = {}
    /\ zeroLine = FALSE
    /\ zeroEcho = FALSE
    /\ ms = 0
    /\ uptime = NoText
    /\ reading = FALSE

\* What a callback asks of the operating system: asks.root, it lists the
\* root directory; asks.logs, the ids whose log file it may append to;
\* asks.spawn, the ids it may spawn; asks.kill, the ids whose child it may
\* kill while that child has no pid.  The answer to a question a callback
\* never asks is left healthy; a listing that fails ends the callback, which
\* lists before anything else, so nothing more is asked then.
Ask(root, logs, spawn, kill) ==
    [root |-> root, logs |-> logs, spawn |-> spawn, kill |-> kill]

\* Outside a directory the spawn fails whether node is found or not.
SpawnAsked(asks) ==
    {sp \in [asks.spawn -> SpawnAnswers] :
        \A id \in asks.spawn : sp[id] = "ENOENT" => id \in dirs}

\* A spawn that throws, or returns a child without stdio, appends nothing.
LogsAsked(asks, sp) ==
    {id \in asks.logs : id \in asks.spawn => sp[id] # "EMFILE" /\ id \notin files}

Asked(asks) ==
    UNION {{[root |-> TRUE,
             logs |-> [id \in Ids |-> id \notin bad],
             spawn |-> [id \in Ids |-> IF id \in asks.spawn THEN sp[id] ELSE "ok"],
             kill |-> [id \in Ids |-> IF id \in asks.kill THEN k[id] ELSE "returns"]] :
               bad \in SUBSET LogsAsked(asks, sp), k \in [asks.kill -> KillAnswers]} :
           sp \in SpawnAsked(asks)}
    \cup (IF asks.root THEN {[Healthy EXCEPT !.root = FALSE]} ELSE {})

Answers(F, asks) == {fs \in Asked(asks) : fs \in F}

\* The names the listing returns, and the ids a call of startBot would spawn.
Listed == dirs \cup files

Unregistered(ids) == ids \ DOMAIN processes

\* The registered ids among ids whose child has no pid.
Pidless(ids) ==
    {id \in ids \cap DOMAIN processes : procs[processes[id]].status = "failed"}

LineAsks(input) ==
    IF input = <<"l", "s">> THEN Ask(TRUE, {}, {}, {})
    ELSE IF IsCmd("r", input)
    THEN Ask(FALSE, Unregistered({Tail(input)}), Unregistered({Tail(input)}),
             Pidless({Tail(input)}))
    ELSE IF IsCmd("s", input)
    THEN Ask(FALSE, {Tail(input)} \cap DOMAIN processes, {}, Pidless({Tail(input)}))
    ELSE IF input = <<"s", "a">> THEN Ask(FALSE, DOMAIN processes, {}, Pidless(Ids))
    ELSE IF input = <<"r", "a">> THEN Ask(FALSE, {}, {}, Pidless(Ids))
    ELSE Ask(FALSE, {}, {}, {})

\* The reconciliation starts the unregistered names of the listing and stops
\* the registered ids the listing lacks.
TickAsks ==
    Ask(TRUE, Unregistered(Listed) \cup (DOMAIN processes \ Listed), Unregistered(Listed),
        Pidless(Ids \ Listed))

\* The 'data' and 'exit' handlers of child h append to its log file.
ChildAsks(h) == Ask(FALSE, {procs[h].id}, {}, {})

\* startBot(id) spawns and logs unless id is registered.
StartAsks(ids) == Ask(FALSE, Unregistered(ids), Unregistered(ids), {})

\* The events that wait for no timer and no input: the initial start, and
\* the 'error' and 'exit' events of the children.  The system answers each
\* callback as some member of F does; at most n children are spawned.
Events(F, n) ==
    \/ \E fs \in Answers(F, Ask(TRUE, Listed, Listed, {})) :
          InitialStart(fs) /\ Len(procs') <= n
    \/ \E h \in errq : ErrorEvent(h)
    \/ \E h \in 1..Len(procs), code \in ExitCodes :
          \E fs \in Answers(F, ChildAsks(h)) : ExitEvent(h, code, fs)

\* The operator's input lines.
Input(F, n) ==
    \E input \in Lines :
       \E fs \in Answers(F, LineAsks(input)) : Line(input, fs) /\ Len(procs') <= n

\* The callbacks that can run at once.
Callbacks(F, n) == Events(F, n) \/ Input(F, n)

\* The restart timers that are due.
Restarts(F, n) ==
    \E t \in timers :
       \E fs \in Answers(F, StartAsks({t.id})) : TimerFire(t, fs) /\ Len(procs') <= n

\* The reconciliation interval.
Ticks(F, n) ==
    \E fs \in Answers(F, TickAsks) : ReconcileTick(fs) /\ Len(procs') <= n

\* At most a periods of 5 s pass.
Clock(a) == Advance /\ now' <= a * RestartDelay

\* The passing of time and the callbacks it brings.
Timed(F, n, a) == Restarts(F, n) \/ Ticks(F, n) \/ Clock(a)

\* The children write to their stdout and stderr.
Output(F) ==
    \/ \E h \in 1..Len(procs), d \in Data :
          \E fs \in Answers(F, ChildAsks(h)) : stdoutData(h, d, fs)
    \/ \E h \in 1..Len(procs), d \in Data :
          \E fs \in Answers(F, ChildAsks(h)) : stderrData(h, d, fs)

\* Workload directories come and go.
DirChanges ==
    \/ \E id \in Ids : MkDir(id)
    \/ \E id \in Ids : RmDir(id)

\* Numeric names that are not directories come and go.
FileChanges ==
    \/ \E id \in Ids : MkFile(id)
    \/ \E id \in Ids : RmFile(id)

\* One step of the program or of its environment.
Step(F) ==
    Callbacks(F, MaxSpawns) \/ Timed(F, MaxSpawns, MaxAdvance) \/ Output(F)
    \/ DirChanges \/ FileChanges

\* The program in every environment the model describes.
Next == Step(FsStates)

Spec == Init /\ [][Next]_vars

\* Crash recovery without the operator: no call fails, no line is typed and
\* no child writes to its stdout or stderr.  The exit events and the restart
\* timers go on for MaxSpawns children; the reconciliation, 30 minutes apart,
\* starts none but the first FewSpawns.
NextCycle ==
    Events(HealthyStates, MaxSpawns) \/ Restarts(HealthyStates, MaxSpawns)
    \/ Ticks(HealthyStates, FewSpawns) \/ Clock(MaxAdvance) \/ DirChanges

SpecCycle == Init /\ [][NextCycle]_vars

\* Normal operation with silent children: no call fails and no child writes
\* to its stdout or stderr.  The data handlers touch the log files and the
\* console only, which no other callback reads.
NextSilent ==
    Callbacks(HealthyStates, FewSpawns) \/ Timed(HealthyStates, FewSpawns, FewAdvance)
    \/ DirChanges

SpecSilent == Init /\ [][NextSilent]_vars

\* Silent children with the faults: a callback may find the root unreadable,
\* a log file unwritable, node missing or no descriptor left for the pipes of
\* a spawn.
NextFaults ==
    Callbacks(FsStates, FewSpawns) \/ Timed(FsStates, FewSpawns, FewAdvance) \/ DirChanges

SpecFaults == Init /\ [][NextFaults]_vars

\* Silent children, with numeric names under ./ that are regular files.
NextFiles ==
    Callbacks(HealthyStates, FewSpawns) \/ Timed(HealthyStates, FewSpawns, FewAdvance)
    \/ DirChanges \/ FileChanges

SpecFiles == Init /\ [][NextFiles]_vars

\* The children's output, with the faults of the file system, before any
\* time has passed: no restart timer is due and the first tick of the
\* reconciliation interval is 30 minutes away.
NextOutput == Callbacks(FsStates, FewSpawns) \/ Output(FsStates) \/ DirChanges

SpecOutput == Init /\ [][NextOutput]_vars

----------------------------------------------------------------------------
(* formatDuration, the pure function behind the Uptime column of ls *)

\* Mutant of formatDuration: the minutes are not reduced modulo 60.
formatDurationTotalMinutes(d) ==
    LET sec == (d \div 1000) % 60
        min == d \div (1000 * 60)
        hr == d \div (1000 * 60 * 60)
    IN ToString(hr) \o "h " \o ToString(min) \o "m " \o ToString(sec) \o "s"

\* Math.floor(x / k) of a non-negative integer x is x \div k; the template
\* literal prints each number in decimal.
formatDuration(d) ==
    LET sec == (d \div 1000) % 60
        min == (d \div (1000 * 60)) % 60
        hr == d \div (1000 * 60 * 60)
    IN ToString(hr) \o "h " \o ToString(min) \o "m " \o ToString(sec) \o "s"

\* The durations formatDuration is applied to: the first and the last
\* millisecond of every second up to MaxSeconds.
FmtInputs == {1000 * s + r : s \in 0..MaxSeconds, r \in {0, 999}}

\* const uptime = formatDuration(Date.now() - startTimes[id])
ShowUptime ==
    /\ uptime = NoText
    /\ uptime' = formatDuration(ms)
    /\ UNCHANGED <<processes, startTimes, logStream, timers, errq, sup, procs, logFile,
                   console, dirs, now, chunks, removed, zeroLine, zeroEcho, ms, files,
                   reading>>

InitFmt ==
    /\ processes = <<>>
    /\ startTimes = <<>>
    /\ logStream = NoId
    /\ timers = {}
    /\ errq = {}
    /\ sup = "boot"
    /\ procs = <<>>
    /\ logFile = [id \in Ids |-> <<>>]
    /\ console = <<>>
    /\ dirs = {}
    /\ files = {}
    /\ now = 0
    /\ chunks = 0
    /\ removed = {}
    /\ zeroLine = FALSE
    /\ zeroEcho = FALSE
    /\ ms \in FmtInputs
    /\ uptime = NoText
    /\ reading = FALSE

NextFmt == ShowUptime

SpecFmt == InitFmt /\ [][NextFmt]_vars

----------------------------------------------------------------------------
(* Properties *)

Registered(id) == id \in DOMAIN processes

WasStopped(h) == procs[h].sig \in {"stop", "reconcile"}

Last(q) == q[Len(q)]

\* The step is the exit event of child h.
Exits(h) == procs[h].status = "alive" /\ procs'[h].status = "exited"

\* The step is the firing of restart timer t.
Fires(t) == t \in timers /\ t \notin timers'

\* The number of entries of a sequence that satisfy a test on (kind, text).
RECURSIVE CountChunks(_, _, _)
CountChunks(q, kind, text) ==
    IF q = <<>> THEN 0
    ELSE (IF Head(q).kind = kind /\ Head(q).text = text THEN 1 ELSE 0)
         + CountChunks(Tail(q), kind, text)

RECURSIVE CountEchoes(_, _, _, _)
CountEchoes(q, id, stream, text) ==
    IF q = <<>> THEN 0
    ELSE (IF Head(q).id = id /\ Head(q).stream = stream /\ Head(q).text = text THEN 1 ELSE 0)
         + CountEchoes(Tail(q), id, stream, text)

\* C1: Stop is terminal.  The input line s<id> leaves id without a registry
\* entry, and the restart timer left by the exit event of a child that Stop
\* killed starts no subprocess.
C1_StopIsTerminal ==
    [][/\ \A id \in Ids : Line(<<"s">> \o id, Healthy) => ~Registered(id)'
       /\ \A t \in timers :
            (TimerFire(t, Healthy) /\ procs[t.from].sig = "stop") => procs' = procs]_vars

\* C2: no duplicate concurrent launches.  At most one subprocess of an id has
\* been spawned and has not yet exited (the registry, a map, holds at most one
\* entry per id by construction).
C2_NoDuplicateLaunch == \A id \in Ids : Cardinality(AliveOf(id)) <= 1

\* C3: registry membership exactly reflects liveness.  Between callbacks, id
\* has a registry entry if and only if a subprocess of id is alive and has not
\* been the target of Stop.
C3_RegistryReflectsLiveness ==
    Ready => \A id \in Ids : Registered(id) <=> (\E h \in AliveOf(id) : ~WasStopped(h))

\* C4: crash recovery.  The exit event of the registered child of id, whatever
\* its exit code, unregisters id, appends the exit notice and schedules a timer
\* due 5 s later; a restart timer fires no earlier than it is due, and when it
\* has fired id is registered with a handle other than the exited one, which is
\* a running subprocess when the directory of id exists.
C4_CrashRecovery ==
    [][/\ \A h \in 1..Len(procs) :
            LET id == procs[h].id
                t == [id |-> id, from |-> h, due |-> now + RestartDelay]
            IN (Exits(h) /\ Registered(id) /\ processes[id] = h)
               => /\ ~Registered(id)'
                  /\ id \notin DOMAIN startTimes'
                  /\ \E code \in ExitCodes :
                        logFile'[id] = Append(logFile[id], Msg("Exited", 0, code))
                  /\ t \notin timers
                  /\ timers' = timers \cup {t}
       /\ \A t \in timers :
            Fires(t)
            => /\ now >= t.due
               /\ Registered(t.id)'
               /\ processes'[t.id] # t.from
               /\ t.id \in dirs => procs'[processes'[t.id]].status = "alive"]_vars

\* C4 witness: the recovery has run twice.  Two children of one id that
\* nobody signalled have exited, one after the other, and the id is registered
\* with a third, running child, the last exit notice being followed by the
\* start notice of that child in the log.
C4_Witness ==
    \E id \in Ids : \E h1, h2 \in 1..Len(procs) :
        /\ h1 < h2
        /\ \A h \in {h1, h2} :
              procs[h].id = id /\ procs[h].status = "exited" /\ procs[h].sig = "none"
        /\ Registered(id) /\ processes[id] > h2 /\ procs[processes[id]].status = "alive"
        /\ Len(logFile[id]) >= 5
        /\ logFile[id][Len(logFile[id]) - 1].kind = "Exited"
        /\ Last(logFile[id]) = Msg("Started", processes[id], "")
        /\ now = MaxAdvance * RestartDelay

\* C5: reconciliation removal.  A tick unregisters every registered id whose
\* directory is absent, and while the directory stays absent no restart timer
\* brings the id back into the registry.
C5_ReconcileRemoval ==
    [][/\ ReconcileTick(Healthy) => \A id \in DOMAIN processes \ dirs : ~Registered(id)'
       /\ \A t \in timers :
            (TimerFire(t, Healthy) /\ t.id \in removed) => ~Registered(t.id)']_vars

\* C6: discovery read failure keeps the previous state.  A reconciliation tick
\* or an ls command that finds the root unreadable stops and starts nothing,
\* leaves the registry as it was, and the supervisor keeps running.
C6_ReadFailureKeepsState ==
    [][\A fs \in FsStates :
          (~fs.root /\ (ReconcileTick(fs) \/ Line(<<"l", "s">>, fs)))
          => /\ UNCHANGED <<processes, startTimes, procs, timers>>
             /\ sup' = "running"]_vars

\* C7: spawn failure follows the exit path.  Once the failure of a spawn has
\* been delivered, the supervisor is running and the id is no longer
\* registered with the child that could not be launched.
C7_SpawnFailureIsExit ==
    \A h \in 1..Len(procs) :
        (procs[h].status = "failed" /\ h \notin errq)
        => /\ sup = "running"
           /\ ~(Registered(procs[h].id) /\ processes[procs[h].id] = h)

\* C8: the input line 0 clears the selector.  While 0 is the last digit-only
\* line processed, the selector holds no id and no chunk has been echoed.
C8_ZeroClearsSelector == zeroLine => (logStream = NoId /\ ~zeroEcho)

\* C9: selector scoping.  A chunk of workload id is echoed exactly when the
\* selector equals id as the chunk is handled, the echo carrying that id and
\* that chunk; echoed or not, the chunk is appended to the log file of id, and
\* no other log file changes.
C9_SelectorScoping ==
    [][\A h \in 1..Len(procs), stream \in Streams, d \in Data :
          LET id == procs[h].id
          IN (chunks' = chunks + 1 /\ onData(h, stream, d, Healthy))
             => /\ (console' # console) <=> (logStream = id)
                /\ console' # console
                   => console' = Append(console, [stream |-> stream, id |-> id, text |-> d])
                /\ logFile'[id] = Append(logFile[id], Msg(stream, 0, d))
                /\ \A other \in Ids \ {id} : logFile'[other] = logFile[other]]_vars

\* C9 witness: a chunk of the selected workload has been echoed and logged
\* while the other workload runs.
C9_Witness ==
    \E id \in Ids :
        /\ logStream = id
        /\ console # <<>> /\ Last(console).id = id
        /\ logFile[id] # <<>> /\ Last(logFile[id]) = Msg(Last(console).stream, 0, Last(console).text)
        /\ \E other \in Ids \ {id} : AliveOf(other) # {}

\* C10: log before echo.  Every chunk echoed to the console has been appended
\* to the log file of its workload.
C10_LogBeforeEcho ==
    \A id \in Ids, stream \in Streams, d \in Data :
        CountEchoes(console, id, stream, d) <= CountChunks(logFile[id], stream, d)

\* C11: a failed log write is not fatal.  When the append to the log file
\* fails during an exit event, an output chunk, Stop or the Start of a restart
\* timer, the supervisor keeps running; after the exit event the id is
\* unregistered and its restart timer is scheduled all the same.
C11_LogFailureNotFatal ==
    [][LET fs == [Healthy EXCEPT !.logs = [id \in Ids |-> FALSE]]
       IN /\ \A h \in 1..Len(procs), code \in ExitCodes :
               (Exits(h) /\ ExitEvent(h, code, fs))
               => /\ sup' = "running"
                  /\ ~Registered(procs[h].id)'
                  /\ \E t \in timers' \ timers : t.from = h
          /\ \A h \in 1..Len(procs), stream \in Streams, d \in Data :
               (chunks' = chunks + 1 /\ onData(h, stream, d, fs)) => sup' = "running"
          /\ \A id \in Ids : Line(<<"s">> \o id, fs) => sup' = "running"
          /\ \A t \in timers : (Fires(t) /\ TimerFire(t, fs)) => sup' = "running"]_vars

\* C12: Restart brings the workload back.  The input line r<id> on a
\* registered id only calls kill() on its child: nothing is spawned and the
\* registry entry, the start time and the timers stay as they are; on an id
\* that is not registered it registers at once a child that was never
\* registered before.  The exit event of a child that Restart signalled
\* schedules a restart timer, and when that timer has fired the id is
\* registered with a later child.  The steps are those in which kill() sends
\* its signal to the child or returns.
C12_RestartBringsBack ==
    [][/\ \A id \in Ids :
            Line(<<"r">> \o id, Healthy)
            => IF Registered(id)
               THEN /\ procs' = [procs EXCEPT ![processes[id]].sig = "restart"]
                    /\ UNCHANGED <<processes, startTimes, timers, logFile>>
               ELSE /\ Len(procs') = Len(procs) + 1
                    /\ Registered(id)'
                    /\ processes'[id] = Len(procs')
                    /\ procs'[Len(procs')].id = id
       /\ \A h \in 1..Len(procs) :
            (Exits(h) /\ procs[h].sig = "restart")
            => \E t \in timers' \ timers : t.id = procs[h].id /\ t.from = h
       /\ \A t \in timers :
            (Fires(t) /\ procs[t.from].sig = "restart")
            => Registered(t.id)' /\ processes'[t.id] > t.from]_vars

\* C12 witness: a child that Restart signalled has exited and its id is
\* registered with a later, running child.
C12_Witness ==
    \E h \in 1..Len(procs) :
        /\ procs[h].sig = "restart" /\ procs[h].status = "exited"
        /\ Registered(procs[h].id)
        /\ processes[procs[h].id] > h
        /\ procs[processes[procs[h].id]].status = "alive"

\* C13: Start is idempotent.  Start(id) on a registered id returns the state
\* it was given; a restart timer that fires for a registered id spawns
\* nothing, registers nothing and writes no notice; a reconciliation tick
\* leaves the handle, the start time and the log of every registered id whose
\* directory exists as they were, and spawns only for ids that were not
\* registered.
C13_StartIdempotent ==
    [][/\ \A id \in DOMAIN processes : startBot(Cur(Healthy), id) = Cur(Healthy)
       /\ \A t \in timers :
            (Fires(t) /\ Registered(t.id))
            => UNCHANGED <<processes, startTimes, procs, logFile, errq>>
       /\ ReconcileTick(Healthy)
          => /\ \A id \in DOMAIN processes \cap dirs :
                  /\ Registered(id)' /\ processes'[id] = processes[id]
                  /\ startTimes'[id] = startTimes[id]
                  /\ logFile'[id] = logFile[id]
             /\ Len(procs') = Len(procs) + Cardinality(dirs \ DOMAIN processes)]_vars

\* C13 witness: the restart timer of an exited child has fired while its id
\* was registered with a later child: the timer is gone, and the running child
\* of the id is registered with a start time that lies before the firing.
C13_Witness ==
    \E id \in DOMAIN processes : \E h \in 1..Len(procs) :
        /\ procs[h].id = id /\ procs[h].status = "exited"
        /\ h < processes[id]
        /\ procs[processes[id]].status = "alive"
        /\ \A t \in timers : t.from # h
        /\ startTimes[id] < RestartDelay
        /\ now >= RestartDelay

\* C14: Stop is idempotent.  The input line s<id> on an id without a registry
\* entry changes nothing at all: no signal, no change of registry, start
\* times, selector, timers or log, and the supervisor keeps running.
C14_StopIdempotent ==
    [][\A id \in Ids \ DOMAIN processes :
          Line(<<"s">> \o id, Healthy) => UNCHANGED vars]_vars

\* C14 witness: an id that Stop has already unregistered, the stop notice
\* being the last entry of its log, with the supervisor ready for the next
\* line.
C14_Witness ==
    /\ Ready
    /\ \E id \in Ids :
          /\ ~Registered(id)
          /\ logFile[id] # <<>> /\ Last(logFile[id]).kind = "Stopped"
          /\ \E h \in 1..Len(procs) : procs[h].id = id /\ procs[h].sig = "stop"

\* C15: reconciliation addition.  When a tick completes, every id whose
\* directory exists is registered, and an id that was not registered before
\* the tick holds a child spawned by it, running, with the tick's time as
\* start time; the registry after the initial pass is exactly the set of
\* directories.
C15_ReconcileAddition ==
    [][/\ ReconcileTick(Healthy)
          => \A id \in dirs :
                /\ Registered(id)'
                /\ ~Registered(id)
                   => /\ processes'[id] > Len(procs)
                      /\ procs'[processes'[id]] = [id |-> id, status |-> "alive", sig |-> "none"]
                      /\ startTimes'[id] = now
                      /\ logFile'[id] = Append(logFile[id], Msg("Started", processes'[id], ""))
       /\ InitialStart(Healthy)
          => /\ DOMAIN processes' = dirs
             /\ \A id \in dirs : procs'[processes'[id]].status = "alive"]_vars

\* C15 witness: a workload started after the clock has moved on, with no
\* exit, stop or restart in its log, next to a workload that has been running
\* since the initial pass.
C15_Witness ==
    \E id \in dirs : \E other \in dirs \ {id} :
        /\ Registered(id) /\ procs[processes[id]].status = "alive"
        /\ startTimes[id] > 0
        /\ logFile[id] = <<Msg("Started", processes[id], "")>>
        /\ Registered(other) /\ startTimes[other] = 0
        /\ processes[other] < processes[id]

\* C16: the selector survives lifecycle events.  The selector changes only in
\* the step that handles a digit-only input line, and then to that line; no
\* start, stop, restart, exit, timer or tick changes it.
C16_SelectorSurvives ==
    [][logStream' # logStream
       => \E input \in Lines :
             IsDigits(input) /\ logStream' = input /\ Line(input, Healthy)]_vars

\* C16 witness: the selected workload has exited and been started again, and
\* is still selected.
C16_Witness ==
    \E id \in Ids : \E h \in 1..Len(procs) :
        /\ logStream = id
        /\ procs[h].id = id /\ procs[h].status = "exited"
        /\ Registered(id) /\ processes[id] > h
        /\ procs[processes[id]].status = "alive"

\* C17: duration formatting.  For a duration of ms >= 0 milliseconds the text
\* returned is "<H>h <M>m <S>s" with H = floor(ms / 3600000),
\* M = floor(ms / 60000) mod 60 and S = floor(ms / 1000) mod 60, so that
\* 0 <= M < 60, 0 <= S < 60 and H * 3600 + M * 60 + S = floor(ms / 1000);
\* 3661 seconds give "1h 1m 1s".
C17_FormatDuration ==
    uptime # NoText
    => LET H == ms \div 3600000
           M == (ms \div 60000) % 60
           S == (ms \div 1000) % 60
       IN /\ uptime = ToString(H) \o "h " \o ToString(M) \o "m " \o ToString(S) \o "s"
          /\ 0 <= M /\ M < 60 /\ 0 <= S /\ S < 60
          /\ H * 3600 + M * 60 + S = ms \div 1000
          /\ (ms \div 1000 = 3661) => uptime = "1h 1m 1s"

\* C17 witness: 3661 seconds have been formatted as 1h 1m 1s.
C17_Witness == ms \div 1000 = 3661 /\ uptime = "1h 1m 1s"

\* C18: Stop during the restart-pending window does not cancel the restart.
\* The input line s<id>, while id has no registry entry and a restart timer of
\* id is pending, leaves the timers, the registry and the children as they
\* are; and a restart timer that fires for an id without a registry entry
\* spawns one child of that id and registers it.
C18_StopKeepsPendingRestart ==
    [][/\ \A t \in timers :
            (~Registered(t.id) /\ Line(<<"s">> \o t.id, Healthy))
            => UNCHANGED <<timers, processes, startTimes, procs>>
       /\ \A t \in timers :
            (Fires(t) /\ ~Registered(t.id))
            => /\ Len(procs') = Len(procs) + 1
               /\ procs'[Len(procs')].id = t.id
               /\ Registered(t.id)'
               /\ processes'[t.id] = Len(procs')
               /\ startTimes'[t.id] = now]_vars

\* C18 witness: the restart-pending window in which Stop finds nothing to
\* stop: a child has exited on its own, its id has no registry entry, and its
\* restart timer is pending and due while the supervisor takes input.
C18_Witness ==
    /\ Ready
    /\ \E t \in timers :
          /\ ~Registered(t.id)
          /\ procs[t.from].status = "exited" /\ procs[t.from].sig = "none"
          /\ now >= t.due
          /\ t.id \in dirs

\* C19: an exit event only unregisters its own subprocess.  The exit event of
\* child h leaves a registry entry of the same id that holds another child in
\* place, together with its start time.
C19_ExitUnregistersOwnChild ==
    [][\A h \in 1..Len(procs) :
          LET id == procs[h].id
          IN (Exits(h) /\ Registered(id) /\ processes[id] # h)
             => /\ Registered(id)'
                /\ processes'[id] = processes[id]
                /\ id \in DOMAIN startTimes'
                /\ startTimes'[id] = startTimes[id]]_vars

\* C20: the registry and the start times cover the same ids.  In every state,
\* also after a callback that died of a failed read or append, an id has a
\* start time exactly when it has a registry entry.
C20_SameDomains == DOMAIN startTimes = DOMAIN processes

\* C20 witness: one workload registered with its start time while the other
\* has been stopped and has neither.
C20_Witness ==
    \E id \in Ids : \E other \in Ids \ {id} :
        /\ Registered(id) /\ id \in DOMAIN startTimes
        /\ ~Registered(other) /\ other \notin DOMAIN startTimes
        /\ \E h \in 1..Len(procs) : procs[h].id = other /\ WasStopped(h)

====
